---- MODULE Spec2Model ----
(***************************************************************************)
(* Tournament simulation (src/main.js): exhibition-seeded team form, the   *)
(* match simulator, the round-robin group stage, the standings, the        *)
(* seeding of the eight-team bracket and the knockout rounds.              *)
(*                                                                         *)
(* Numbers.  Scores, points and rankings are integers.  A JavaScript       *)
(* number that carries a fraction (a team's form, the terms of a simulated *)
(* score) is carried as an integer count of a fixed unit: a form value f   *)
(* is the integer f * FormScale, and a draw of Math.random() is one of the *)
(* values k / DrawDen, k in 0 .. DrawDen-1, carried as k.                  *)
(***************************************************************************)
EXTENDS Integers, Sequences, FiniteSets, TLC

VARIABLES
    groups,             \* main.js:6    group name -> list of team records
    exhibitions,        \* main.js:7    ISO code -> list of exhibition matches
    teamForm,           \* main.js:120  ISO code -> form (in 1/FormScale)
    rng,                \* the values Math.random() hands out, in order, cyclically
    rngPos,             \* number of draws taken so far
    pc,                 \* position in main() (main.js:416-424)
    gi,                 \* createRoundRobin: index of the group being played
    mi,                 \* createRoundRobin: index of the match within the group
    groupResults,       \* createRoundRobin's results: group name -> list of results
    groupRankings,      \* rankTeams' rankings: group name -> sorted standings
    rankedTeams,        \* getTopEightTeams' list
    quarterfinals,      \* getEliminationMatches' list of pairs
    semifinals,         \* getEliminationResults' local arrays (main.js:391)
    finals,
    bronzeMatch,
    results,            \* getEliminationResults' result object (main.js:392)
    runs,               \* history: per start of getEliminationResults, the form
                        \* table and draw position it started from, and (once
                        \* it is called again) what it returned and the form
                        \* table it left
    call                \* one call of expectedPointDiff: its arguments and result

vars == <<groups, exhibitions, teamForm, rng, rngPos, pc, gi, mi, groupResults,
          groupRankings, rankedTeams, quarterfinals, semifinals, finals,
          bronzeMatch, results, runs, call>>

(***************************************************************************)
(* Bounds of the model.                                                    *)
(***************************************************************************)
FormScale == 1000       \* resolution of a fractional number: 1/FormScale
DrawDen == 4            \* Math.random() takes the values k/DrawDen
RngLen == 4             \* length of the cyclic list of draws
MaxMargin == 1          \* drawn group results: winning margins 0 .. MaxMargin
ScoreLine == 80         \* drawn group results: the losing side's score

(***************************************************************************)
(* Constants of the program.                                               *)
(***************************************************************************)
BaseDiff == 4           \* main.js:91
MaxDiff == 30           \* main.js:93
RankDiffScale == 30     \* main.js:99   rankDiff / 30
MarginDivisor == 3      \* main.js:107, 114
BigRankDiff == 10       \* main.js:104
FormFactorPct == 7      \* main.js:133  formFactor = 0.07
RankWeightPct == 65     \* main.js:164
FormWeightPct == 35     \* main.js:165
RandomSpan == 10        \* main.js:167  Math.random() * 10 - 4
RandomShift == 4        \* main.js:167
VarianceSpan == 15      \* main.js:168  Math.floor(Math.random() * 15)
DefenseAdjust == 6      \* main.js:54
WinPoints == 2          \* main.js:313
TopEight == 8           \* main.js:351
NumPots == 4            \* main.js:363
GroupSize == 4          \* main.js:216-218  teams[0] .. teams[3]

Undefined == "undefined"

(***************************************************************************)
(* JavaScript arithmetic on fractions n/d with d > 0.                      *)
(***************************************************************************)
\* Math.round(n/d): the nearest integer, a half rounding up (toward +infinity).
MathRound(n, d) == (2 * n + d) \div (2 * d)

\* Math.floor(n/d)
MathFloor(n, d) == n \div d

\* n/d to the nearest integer, as a floating-point product is rounded to the
\* nearest representable value (here: the nearest multiple of the unit).
Nearest(n, d) == (2 * n + d) \div (2 * d)

Abs(x) == IF x < 0 THEN -x ELSE x

\* x >= m in JavaScript: false when m is undefined (it converts to NaN).
JsGreaterEq(x, m) == IF m = Undefined THEN FALSE ELSE x >= m

(***************************************************************************)
(* The input data (groups.json, exhibitions.json).                         *)
(***************************************************************************)
TeamRec(name, iso, ranking) == [Team |-> name, ISOCode |-> iso, FIBARanking |-> ranking]

GroupNames == <<"A", "B", "C">>

\* The teams a group may list, in the order of the input file.  Group A's first
\* four are those of the documented example (main.js:187-194).
Roster ==
    [A |-> << TeamRec("Kanada", "CAN", 7), TeamRec("Australija", "AUS", 5),
              TeamRec("Grcka", "GRE", 14), TeamRec("Spanija", "ESP", 2),
              TeamRec("Litvanija", "LTU", 10) >>,
     B |-> << TeamRec("Nemacka", "GER", 3), TeamRec("Francuska", "FRA", 9),
              TeamRec("Brazil", "BRA", 12), TeamRec("Japan", "JPN", 26),
              TeamRec("Italija", "ITA", 13) >>,
     C |-> << TeamRec("SAD", "USA", 1), TeamRec("Srbija", "SRB", 4),
              TeamRec("Juzni Sudan", "SSD", 34), TeamRec("Puerto Riko", "PRI", 16),
              TeamRec("Slovenija", "SLO", 11) >>]

ExMatch(opp, s1, s2) == [Opponent |-> opp, Result |-> <<s1, s2>>]

\* Exhibition matches per team; Result is the "<int>-<int>" string already split
\* into its two numbers (main.js:22).
ExhibitionTable ==
    [CAN |-> << ExMatch("USA", 72, 86), ExMatch("FRA", 85, 73) >>,
     AUS |-> << ExMatch("SRB", 84, 73), ExMatch("USA", 92, 98) >>,
     GRE |-> << ExMatch("PRI", 89, 72), ExMatch("FRA", 96, 68) >>,
     ESP |-> << ExMatch("PRI", 107, 84), ExMatch("BRA", 80, 85) >>,
     LTU |-> << ExMatch("BRA", 81, 79), ExMatch("JPN", 88, 70) >>,
     GER |-> << ExMatch("FRA", 66, 90), ExMatch("JPN", 104, 83) >>,
     FRA |-> << ExMatch("GER", 90, 66), ExMatch("CAN", 73, 85) >>,
     BRA |-> << ExMatch("ESP", 85, 80), ExMatch("SSD", 81, 74) >>,
     JPN |-> << ExMatch("GER", 83, 104), ExMatch("SRB", 100, 119) >>,
     ITA |-> << ExMatch("CAN", 79, 81), ExMatch("SSD", 78, 75) >>,
     USA |-> << ExMatch("CAN", 86, 72), ExMatch("AUS", 98, 92) >>,
     SRB |-> << ExMatch("AUS", 73, 84), ExMatch("JPN", 119, 100) >>,
     SSD |-> << ExMatch("USA", 100, 101), ExMatch("BRA", 74, 81) >>,
     PRI |-> << ExMatch("GRE", 72, 89), ExMatch("ESP", 84, 107) >>,
     SLO |-> << ExMatch("GRE", 68, 96), ExMatch("AUS", 77, 80) >>]

\* The keys of exhibitions in file order (for (const team in exhibitions)).
ExhibitionOrder ==
    << "CAN", "AUS", "GRE", "ESP", "LTU", "GER", "FRA", "BRA", "JPN", "ITA",
       "USA", "SRB", "SSD", "PRI", "SLO" >>

\* The teams of all groups in one list (main.js:10-13).
RECURSIVE TeamsOfFrom(_, _, _)
TeamsOfFrom(g, order, k) ==
    IF k > Len(order) THEN << >>
    ELSE g[order[k]] \o TeamsOfFrom(g, order, k + 1)

\* Object.keys(groups) in order.
GroupOrder(g) == SelectSeq(GroupNames, LAMBDA n : n \in DOMAIN g)

TeamsOf(g) == TeamsOfFrom(g, GroupOrder(g), 1)

IsoCodes(g) == { TeamsOf(g)[i].ISOCode : i \in 1 .. Len(TeamsOf(g)) }

\* The exhibition data of the teams of g: the matches of each listed team against
\* listed opponents.
ExhibitionsFor(g) ==
    [iso \in IsoCodes(g) |->
        SelectSeq(ExhibitionTable[iso], LAMBDA m : m.Opponent \in IsoCodes(g))]

(***************************************************************************)
(* expectedPointDiff (main.js:85-118).                                     *)
(***************************************************************************)
\* The least integer c >= 2 * (maxDiff - baseDiff) * (rankDiff / 30) ^ 1.5, found
\* on the squares: c^2 * 30^3 >= 4 * (maxDiff - baseDiff)^2 * rankDiff^3.
TwiceCurveCeil(rankDiff) ==
    LET rhs == 4 * (MaxDiff - BaseDiff) * (MaxDiff - BaseDiff)
                 * rankDiff * rankDiff * rankDiff
        lhs(c) == c * c * RankDiffScale * RankDiffScale * RankDiffScale
    IN  CHOOSE c \in 0 .. 2 * MaxDiff * (1 + rankDiff) :
            /\ lhs(c) >= rhs
            /\ \A b \in 0 .. c - 1 : lhs(b) < rhs

\* Math.round((actualPointDiff - pointDiff) / 3) with
\* pointDiff = baseDiff + (maxDiff - baseDiff) * (rankDiff / 30) ^ 1.5, which is
\* floor((2 * actualPointDiff + 3 - 2 * pointDiff) / 6).
RoundCloseMargin(actualPointDiff, rankDiff) ==
    (2 * actualPointDiff + MarginDivisor - 2 * BaseDiff - TwiceCurveCeil(rankDiff))
        \div (2 * MarginDivisor)

expectedPointDiff(rankHome, rankAway, score1, score2) ==
    LET actualPointDiff == IF rankHome < rankAway THEN score1 - score2
                                                  ELSE score2 - score1
        rankDiff == Abs(rankHome - rankAway)
        margin == Undefined                       \* let margin; (main.js:101)
    IN  IF rankDiff > BigRankDiff
        THEN IF JsGreaterEq(actualPointDiff, margin)
             THEN MathRound(actualPointDiff, MarginDivisor)
             ELSE 0
        ELSE RoundCloseMargin(actualPointDiff, rankDiff)

(***************************************************************************)
(* getInitialForms (main.js:9-35): integer forms, one per team of groups.  *)
(***************************************************************************)
\* teamRankings.find(t => t.ISOCode === iso).FIBARanking
RankingOf(g, iso) ==
    LET ts == TeamsOf(g)
        i == CHOOSE i \in 1 .. Len(ts) :
                 /\ ts[i].ISOCode = iso
                 /\ \A j \in 1 .. i - 1 : ts[j].ISOCode # iso
    IN  ts[i].FIBARanking

\* The forms after the first n matches of team `home`, starting from `form`.
RECURSIVE FormsAfterMatches(_, _, _, _, _)
FormsAfterMatches(g, form, home, matches, n) ==
    IF n = 0 THEN form
    ELSE LET prev == FormsAfterMatches(g, form, home, matches, n - 1)
             match == matches[n]
             rankHome == RankingOf(g, home)
             rankAway == RankingOf(g, match.Opponent)
             pointDiff == expectedPointDiff(rankHome, rankAway,
                                            match.Result[1], match.Result[2])
             credited == IF rankHome < rankAway THEN home ELSE match.Opponent
         IN  [prev EXCEPT ![credited] = @ + pointDiff]

\* The forms after the first k teams of exhibitions.
RECURSIVE FormsAfterTeams(_, _, _, _)
FormsAfterTeams(g, ex, order, k) ==
    IF k = 0 THEN [iso \in IsoCodes(g) |-> 0]
    ELSE FormsAfterMatches(g, FormsAfterTeams(g, ex, order, k - 1),
                           order[k], ex[order[k]], Len(ex[order[k]]))

getInitialForms(g, ex) ==
    LET order == SelectSeq(ExhibitionOrder, LAMBDA iso : iso \in DOMAIN ex)
        form == FormsAfterTeams(g, ex, order, Len(order))
    IN  [iso \in DOMAIN form |-> form[iso] * FormScale]

(***************************************************************************)
(* getBaseScore (main.js:45-55).                                           *)
(***************************************************************************)
RECURSIVE getTotalPointsForTeam(_, _)
getTotalPointsForTeam(matches, n) ==
    IF n = 0 THEN 0
    ELSE getTotalPointsForTeam(matches, n - 1)
         + MathFloor(matches[n].Result[1] + matches[n].Result[2], 2)

getBaseScore(ex, team1, team2) ==
    MathFloor(getTotalPointsForTeam(ex[team1], Len(ex[team1]))
              + getTotalPointsForTeam(ex[team2], Len(ex[team2])), 4) - DefenseAdjust

(***************************************************************************)
(* updateTeamForm (main.js:132-136): two assignments, in order.            *)
(***************************************************************************)
SmoothedForm(old, pointDiff) ==
    Nearest(old * (100 - FormFactorPct) + pointDiff * FormFactorPct * FormScale, 100)

\* Mutant: a match also lets the form of every team that did not play decay.
updateTeamFormDecayAll(form, team1, team2, score1, score2) ==
    [iso \in DOMAIN form |->
        IF iso = team1.ISOCode THEN SmoothedForm(form[iso], score1 - score2)
        ELSE IF iso = team2.ISOCode THEN SmoothedForm(form[iso], score2 - score1)
        ELSE SmoothedForm(form[iso], 0)]

updateTeamForm(form, team1, team2, score1, score2) ==
    LET first == [form EXCEPT ![team1.ISOCode] = SmoothedForm(@, score1 - score2)]
    IN  [first EXCEPT ![team2.ISOCode] = SmoothedForm(@, score2 - score1)]

(***************************************************************************)
(* simulateMatch (main.js:163-175) on three draws d[1], d[2], d[3], taken  *)
(* in the order of the calls to Math.random().  All terms are counted in   *)
(* units of 1 / ScoreDen.                                                  *)
(***************************************************************************)
ScoreDen == 100 * DrawDen * FormScale

simulateMatch(form, ex, team1, team2, d) ==
    LET rankDiff == (team2.FIBARanking - team1.FIBARanking) * RankWeightPct
                        * DrawDen * FormScale
        formDiff == (form[team1.ISOCode] - form[team2.ISOCode]) * FormWeightPct
                        * DrawDen
        baseScore == getBaseScore(ex, team1.ISOCode, team2.ISOCode)
        randomFactor == (d[1] * RandomSpan - RandomShift * DrawDen) * 100 * FormScale
        score1 == (MathFloor(d[2] * VarianceSpan, DrawDen) + baseScore) * ScoreDen
                      + rankDiff + formDiff + randomFactor
        score2 == (MathFloor(d[3] * VarianceSpan, DrawDen) + baseScore) * ScoreDen
                      - rankDiff - formDiff - randomFactor
    IN  [team1 |-> MathRound(score1, ScoreDen), team2 |-> MathRound(score2, ScoreDen)]

\* The next three values of Math.random().
Draw(r, pos, k) == r[((pos + k - 1) % Len(r)) + 1]
NextDraws(r, pos) == << Draw(r, pos, 1), Draw(r, pos, 2), Draw(r, pos, 3) >>

(***************************************************************************)
(* createRoundRobin's schedule (main.js:215-219): the positions, in the    *)
(* group's list, of the two teams of each of the six matches.              *)
(***************************************************************************)
\* Mutant: the third round repeats the pairs of the second.
roundsRepeated ==
    << << <<1, 2>>, <<3, 4>> >>,
       << <<1, 3>>, <<2, 4>> >>,
       << <<1, 3>>, <<2, 4>> >> >>

rounds ==
    << << <<1, 2>>, <<3, 4>> >>,
       << <<1, 3>>, <<2, 4>> >>,
       << <<1, 4>>, <<2, 3>> >> >>

\* The matches in the order the two loops visit them (main.js:221-222).
Schedule ==
    << rounds[1][1], rounds[1][2], rounds[2][1], rounds[2][2],
       rounds[3][1], rounds[3][2] >>

\* teams[i] of a JavaScript array: undefined past its end.
Has(teams, i) == i \in 1 .. Len(teams)

At(teams, i) == IF i \in 1 .. Len(teams) THEN teams[i] ELSE Undefined

GroupResult(team1, team2, matchResult) ==
    [team1 |-> team1.Team, team2 |-> team2.Team,
     score1 |-> matchResult.team1, score2 |-> matchResult.team2]

(***************************************************************************)
(* rankTeams (main.js:287-332).                                            *)
(***************************************************************************)
\* One entry of the map of main.js:290-297.
Standing(team) ==
    [Team |-> team.Team, ISOCode |-> team.ISOCode, FIBARanking |-> team.FIBARanking,
     points |-> 0, scored |-> 0, allowed |-> 0, wins |-> 0, losses |-> 0]

\* teams.find(t => t.Team === name): the index of the first team of that name.
FindTeam(teams, name) ==
    CHOOSE i \in 1 .. Len(teams) :
        /\ teams[i].Team = name
        /\ \A j \in 1 .. i - 1 : teams[j].Team # name

\* main.js:302-305
AddScores(teams, i1, i2, match) ==
    LET a == [teams EXCEPT ![i1].scored = @ + match.score1]
        b == [a EXCEPT ![i1].allowed = @ + match.score2]
        c == [b EXCEPT ![i2].scored = @ + match.score2]
    IN  [c EXCEPT ![i2].allowed = @ + match.score1]

\* main.js:308-310
TieBreakNudge(teams, i1, i2) ==
    IF teams[i1].scored = teams[i2].scored
    THEN IF teams[i1].FIBARanking < teams[i2].FIBARanking
         THEN [teams EXCEPT ![i1].scored = @ + 1]
         ELSE [teams EXCEPT ![i2].scored = @ + 1]
    ELSE teams

\* main.js:312-316 and 318-322: winner w, loser l.
processTeamWin(teams, w, l) ==
    LET a == [teams EXCEPT ![w].points = @ + WinPoints]
        b == [a EXCEPT ![w].wins = @ + 1]
    IN  [b EXCEPT ![l].losses = @ + 1]

\* main.js:324
TeamOneWins(match) == match.score1 > match.score2

\* Mutant: equal scores are a draw, one point each and neither a win nor a loss.
AwardMatchDraw(teams, i1, i2, match) ==
    IF match.score1 = match.score2
    THEN [[teams EXCEPT ![i1].points = @ + 1] EXCEPT ![i2].points = @ + 1]
    ELSE IF match.score1 > match.score2 THEN processTeamWin(teams, i1, i2)
                                        ELSE processTeamWin(teams, i2, i1)

AwardMatch(teams, i1, i2, match) ==
    IF TeamOneWins(match) THEN processTeamWin(teams, i1, i2)
                          ELSE processTeamWin(teams, i2, i1)

\* The body of results[group].forEach (main.js:299-325).
processMatch(teams, match) ==
    LET i1 == FindTeam(teams, match.team1)
        i2 == FindTeam(teams, match.team2)
    IN  AwardMatch(TieBreakNudge(AddScores(teams, i1, i2, match), i1, i2), i1, i2, match)

RECURSIVE AfterMatches(_, _, _)
AfterMatches(teams, matches, n) ==
    IF n = 0 THEN teams
    ELSE processMatch(AfterMatches(teams, matches, n - 1), matches[n])

\* The comparator of main.js:327 and 345: negative when a sorts before b.
CompareStandings(a, b) ==
    IF b.points - a.points # 0 THEN b.points - a.points
    ELSE (b.scored - b.allowed) - (a.scored - a.allowed)

\* Array.prototype.sort is stable: x goes after every element it does not
\* strictly precede.
RECURSIVE InsertSorted(_, _)
InsertSorted(sorted, x) ==
    IF sorted = << >> THEN << x >>
    ELSE IF CompareStandings(x, sorted[Len(sorted)]) < 0
         THEN Append(InsertSorted(SubSeq(sorted, 1, Len(sorted) - 1), x),
                     sorted[Len(sorted)])
         ELSE Append(sorted, x)

RECURSIVE SortStandings(_, _)
SortStandings(teams, n) ==
    IF n = 0 THEN << >>
    ELSE InsertSorted(SortStandings(teams, n - 1), teams[n])

\* main.js:290-297
InitialStandings(teams) == [i \in 1 .. Len(teams) |-> Standing(teams[i])]

rankGroup(teams, matches) ==
    LET done == AfterMatches(InitialStandings(teams), matches, Len(matches))
    IN  SortStandings(done, Len(done))

rankTeams(g, res) == [group \in DOMAIN g |-> rankGroup(g[group], res[group])]

(***************************************************************************)
(* getTopEightTeams (main.js:344-352).                                     *)
(***************************************************************************)
rankGroups(teams) == SortStandings(teams, Len(teams))

Place(rankings, k) == << At(rankings.A, k), At(rankings.B, k), At(rankings.C, k) >>

\* Mutant: the third-place pool is left in group order.
getTopEightTeamsUnsorted(rankings) ==
    LET firstPlaceTeams == rankGroups(Place(rankings, 1))
        secondPlaceTeams == rankGroups(Place(rankings, 2))
        thirdPlaceTeams == Place(rankings, 3)
    IN  SubSeq(firstPlaceTeams \o secondPlaceTeams \o thirdPlaceTeams, 1, TopEight)

getTopEightTeams(rankings) ==
    LET firstPlaceTeams == rankGroups(Place(rankings, 1))
        secondPlaceTeams == rankGroups(Place(rankings, 2))
        thirdPlaceTeams == rankGroups(Place(rankings, 3))
    IN  SubSeq(firstPlaceTeams \o secondPlaceTeams \o thirdPlaceTeams, 1, TopEight)

(***************************************************************************)
(* getEliminationMatches (main.js:362-376).                                *)
(***************************************************************************)
\* pots[p] after the loop of main.js:365-367 (p counted from 1): the teams at
\* the 0-based positions i with Math.floor(i / 2) = p - 1, in order.
Pot(teams, p) ==
    LET at == SelectSeq([i \in 1 .. Len(teams) |-> i],
                        LAMBDA i : MathFloor(i - 1, 2) = p - 1)
    IN  [k \in 1 .. Len(at) |-> teams[at[k]]]

\* Mutant: pot i meets pot 3 - i first against first.
getEliminationMatchesSamePlace(teams) ==
    LET pots == [p \in 1 .. NumPots |-> Pot(teams, p)]
    IN  [i \in 1 .. NumPots |-> << At(pots[i], 1), At(pots[NumPots + 1 - i], 1) >>]

getEliminationMatches(teams) ==
    LET pots == [p \in 1 .. NumPots |-> Pot(teams, p)]
    IN  [i \in 1 .. NumPots |-> << At(pots[i], 1), At(pots[NumPots + 1 - i], 2) >>]

(***************************************************************************)
(* The program: main() (main.js:416-424), one action per simulated match   *)
(* and one per other call.                                                 *)
(***************************************************************************)
NoResults == [quarterfinals |-> << >>, semifinals |-> << >>,
              finals |-> << >>, bronze |-> << >>]

\* simulateMatch with its side effect: the result and the form table it leaves.
Played(team1, team2) ==
    LET result == simulateMatch(teamForm, exhibitions, team1, team2,
                                NextDraws(rng, rngPos))
    IN  [result |-> result,
         form |-> updateTeamForm(teamForm, team1, team2, result.team1, result.team2)]

DrawsTaken == rngPos' = (rngPos + 3) % Len(rng)

\* simulateMatch with its side effect, on the three draws that follow the first
\* pos draws.
PlayedAt(team1, team2, pos) ==
    LET result == simulateMatch(teamForm, exhibitions, team1, team2,
                                NextDraws(rng, pos))
    IN  [result |-> result,
         form |-> updateTeamForm(teamForm, team1, team2, result.team1, result.team2)]

\* Mutant: equal scores advance the first team.
WinnerOrTie(result, a, b) == IF result.team1 >= result.team2 THEN a ELSE b

\* result.team1 > result.team2 ? a : b   (main.js:397, 403, 404)
Winner(result, a, b) == IF result.team1 > result.team2 THEN a ELSE b

\* One pass of the inner loop of createRoundRobin (main.js:211-232).  A group
\* with no team at a scheduled position hands undefined to simulateMatch, which
\* throws a TypeError on its first line (main.js:164).
CreateRoundRobinMatch ==
    /\ pc = "createRoundRobin"
    /\ LET group == GroupOrder(groups)[gi]
           teams == groups[group]
           team1 == At(teams, Schedule[mi][1])
           team2 == At(teams, Schedule[mi][2])
           sofar == IF group \in DOMAIN groupResults THEN groupResults[group]
                                                     ELSE << >>
           with(list) == [g \in DOMAIN groupResults \cup {group} |->
                             IF g = group THEN list ELSE groupResults[g]]
       IN  IF ~ (Has(teams, Schedule[mi][1]) /\ Has(teams, Schedule[mi][2]))
           THEN /\ pc' = "TypeError"
                /\ groupResults' = with(sofar)
                /\ UNCHANGED <<teamForm, rngPos, gi, mi>>
           ELSE LET played == Played(team1, team2)
                IN  /\ groupResults' =
                           with(Append(sofar, GroupResult(team1, team2, played.result)))
                    /\ teamForm' = played.form
                    /\ DrawsTaken
                    /\ IF mi < Len(Schedule)
                       THEN /\ mi' = mi + 1
                            /\ UNCHANGED <<gi, pc>>
                       ELSE /\ mi' = 1
                            /\ IF gi < Len(GroupOrder(groups))
                               THEN gi' = gi + 1 /\ UNCHANGED pc
                               ELSE UNCHANGED gi /\ pc' = "rankTeams"
    /\ UNCHANGED <<groups, exhibitions, rng, groupRankings, rankedTeams,
                   quarterfinals, semifinals, finals, bronzeMatch, results, runs, call>>

\* main.js:418
RankTeams ==
    /\ pc = "rankTeams"
    /\ groupRankings' = rankTeams(groups, groupResults)
    /\ pc' = "getTopEightTeams"
    /\ UNCHANGED <<groups, exhibitions, teamForm, rng, rngPos, gi, mi, groupResults,
                   rankedTeams, quarterfinals, semifinals, finals, bronzeMatch,
                   results, runs, call>>

\* main.js:419
GetTopEightTeams ==
    /\ pc = "getTopEightTeams"
    /\ rankedTeams' = getTopEightTeams(groupRankings)
    /\ pc' = "getEliminationMatches"
    /\ UNCHANGED <<groups, exhibitions, teamForm, rng, rngPos, gi, mi, groupResults,
                   groupRankings, quarterfinals, semifinals, finals, bronzeMatch,
                   results, runs, call>>

\* main.js:420
GetEliminationMatches ==
    /\ pc = "getEliminationMatches"
    /\ quarterfinals' = getEliminationMatches(rankedTeams)
    /\ pc' = "getEliminationResults"
    /\ UNCHANGED <<groups, exhibitions, teamForm, rng, rngPos, gi, mi, groupResults,
                   groupRankings, rankedTeams, semifinals, finals, bronzeMatch,
                   results, runs, call>>

\* Mutant: finals and bronzeMatch outlive the call (module-level arrays).
EliminationStartKeepsFinalists ==
    /\ pc = "getEliminationResults"
    /\ semifinals' = << >>
    /\ results' = NoResults
    /\ runs' = Append(runs, [startForm |-> teamForm, startPos |-> rngPos,
                             returned |-> NoResults])
    /\ pc' = "quarterfinals"
    /\ UNCHANGED <<groups, exhibitions, teamForm, rng, rngPos, gi, mi, groupResults,
                   groupRankings, rankedTeams, quarterfinals, finals, bronzeMatch,
                   call>>

\* getEliminationResults is entered (main.js:390-392): fresh local arrays.
EliminationStart ==
    /\ pc = "getEliminationResults"
    /\ semifinals' = << >>
    /\ finals' = << >>
    /\ bronzeMatch' = << >>
    /\ results' = NoResults
    /\ runs' = Append(runs, [startForm |-> teamForm, startPos |-> rngPos,
                             returned |-> NoResults])
    /\ pc' = "quarterfinals"
    /\ UNCHANGED <<groups, exhibitions, teamForm, rng, rngPos, gi, mi, groupResults,
                   groupRankings, rankedTeams, quarterfinals, call>>

\* One pass of quarterfinals.forEach (main.js:394-398).
Quarterfinal ==
    /\ pc = "quarterfinals"
    /\ LET match == quarterfinals[Len(results.quarterfinals) + 1]
           played == Played(match[1], match[2])
       IN  /\ results' = [results EXCEPT !.quarterfinals =
                             Append(@, [match |-> match, result |-> played.result])]
           /\ semifinals' = Append(semifinals, Winner(played.result, match[1], match[2]))
           /\ teamForm' = played.form
           /\ DrawsTaken
           /\ pc' = IF Len(results.quarterfinals) + 1 = Len(quarterfinals)
                    THEN "semifinals" ELSE pc
    /\ UNCHANGED <<groups, exhibitions, rng, gi, mi, groupResults, groupRankings,
                   rankedTeams, quarterfinals, finals, bronzeMatch, runs, call>>

\* One pass of the loop of main.js:400-405; i is its loop variable.
Semifinal ==
    /\ pc = "semifinals"
    /\ LET i == Len(results.semifinals)
           team1 == semifinals[i * 2 + 1]
           team2 == semifinals[i * 2 + 2]
           played == Played(team1, team2)
       IN  /\ results' = [results EXCEPT !.semifinals =
                             Append(@, [match |-> <<team1, team2>>,
                                        result |-> played.result])]
           /\ finals' = Append(finals, Winner(played.result, team1, team2))
           /\ bronzeMatch' = Append(bronzeMatch, Winner(played.result, team2, team1))
           /\ teamForm' = played.form
           /\ DrawsTaken
           /\ pc' = IF i + 1 < 2 THEN pc ELSE "finals"
    /\ UNCHANGED <<groups, exhibitions, rng, gi, mi, groupResults, groupRankings,
                   rankedTeams, quarterfinals, semifinals, runs, call>>

\* main.js:407-408
Final ==
    /\ pc = "finals"
    /\ LET played == Played(finals[1], finals[2])
       IN  /\ results' = [results EXCEPT !.finals =
                             Append(@, [match |-> finals, result |-> played.result])]
           /\ teamForm' = played.form
           /\ DrawsTaken
    /\ pc' = "bronze"
    /\ UNCHANGED <<groups, exhibitions, rng, gi, mi, groupResults, groupRankings,
                   rankedTeams, quarterfinals, semifinals, finals, bronzeMatch,
                   runs, call>>

\* main.js:410-413; the results go to outputResults (main.js:423).
Bronze ==
    /\ pc = "bronze"
    /\ LET played == Played(bronzeMatch[1], bronzeMatch[2])
       IN  /\ results' = [results EXCEPT !.bronze =
                             Append(@, [match |-> bronzeMatch, result |-> played.result])]
           /\ teamForm' = played.form
           /\ DrawsTaken
    /\ pc' = "outputResults"
    /\ UNCHANGED <<groups, exhibitions, rng, gi, mi, groupResults, groupRankings,
                   rankedTeams, quarterfinals, semifinals, finals, bronzeMatch,
                   runs, call>>

\* The harness of a repeatability test: getEliminationResults is called a second
\* time on the same bracket, Math.random() replaying the same draws.  The form
\* table is the module's own (main.js:120): the harness either leaves it as the
\* first call left it or puts back the table the first call started from.
CallAgain ==
    /\ pc = "outputResults"
    /\ Len(runs) = 1
    /\ \E restore \in BOOLEAN :
           teamForm' = IF restore THEN runs[1].startForm ELSE teamForm
    /\ rngPos' = runs[1].startPos
    /\ runs' = [runs EXCEPT ![1].returned = results]
    /\ pc' = "getEliminationResults"
    /\ UNCHANGED <<groups, exhibitions, rng, gi, mi, groupResults, groupRankings,
                   rankedTeams, quarterfinals, semifinals, finals, bronzeMatch,
                   results, call>>

\* The harness of an order test: getEliminationResults is called a second time
\* on the same bracket, from the form table the first call started from and
\* with Math.random() replaying the same draws; what the first call returned
\* and the form table it left are kept for comparison.
CallBronzeFirst ==
    /\ pc = "outputResults"
    /\ Len(runs) = 1
    /\ teamForm' = runs[1].startForm
    /\ rngPos' = runs[1].startPos
    /\ runs' = << [startForm |-> runs[1].startForm, startPos |-> runs[1].startPos,
                   returned |-> results, leftForm |-> teamForm] >>
    /\ pc' = "getEliminationResults"
    /\ UNCHANGED <<groups, exhibitions, rng, gi, mi, groupResults, groupRankings,
                   rankedTeams, quarterfinals, semifinals, finals, bronzeMatch,
                   results, call>>

\* The second call plays its last two matches in the other order: main.js:410-411
\* ahead of main.js:407-408.  Each match keeps the draws it has in the order of
\* the code: the final the next three, the bronze match the three after those.
BronzeFirst ==
    /\ pc = "finals"
    /\ Len(runs) = 2
    /\ LET played == PlayedAt(bronzeMatch[1], bronzeMatch[2], rngPos + 3)
       IN  /\ results' = [results EXCEPT !.bronze =
                             Append(@, [match |-> bronzeMatch, result |-> played.result])]
           /\ teamForm' = played.form
    /\ pc' = "finalAfterBronze"
    /\ UNCHANGED <<groups, exhibitions, rng, rngPos, gi, mi, groupResults,
                   groupRankings, rankedTeams, quarterfinals, semifinals, finals,
                   bronzeMatch, runs, call>>

\* main.js:407-408 after the bronze match; both matches' draws are now taken.
FinalAfterBronze ==
    /\ pc = "finalAfterBronze"
    /\ LET played == PlayedAt(finals[1], finals[2], rngPos)
       IN  /\ results' = [results EXCEPT !.finals =
                             Append(@, [match |-> finals, result |-> played.result])]
           /\ teamForm' = played.form
    /\ rngPos' = (rngPos + 6) % Len(rng)
    /\ pc' = "bronzeFirstReturned"
    /\ UNCHANGED <<groups, exhibitions, rng, gi, mi, groupResults, groupRankings,
                   rankedTeams, quarterfinals, semifinals, finals, bronzeMatch,
                   runs, call>>

\* One call of expectedPointDiff (main.js:24).
CallExpectedPointDiff ==
    /\ pc = "expectedPointDiff"
    /\ call' = [call EXCEPT !.ret = expectedPointDiff(call.rankHome, call.rankAway,
                                                      call.score1, call.score2)]
    /\ pc' = "returned"
    /\ UNCHANGED <<groups, exhibitions, teamForm, rng, rngPos, gi, mi, groupResults,
                   groupRankings, rankedTeams, quarterfinals, semifinals, finals,
                   bronzeMatch, results, runs>>

(***************************************************************************)
(* Initial states.                                                         *)
(***************************************************************************)
\* The state once the module is loaded (main.js:6-7, 120) with groups g.
Loaded(g) ==
    /\ groups = g
    /\ exhibitions = ExhibitionsFor(g)
    /\ teamForm = getInitialForms(g, ExhibitionsFor(g))
    /\ rngPos = 0
    /\ gi = 1
    /\ mi = 1
    /\ groupRankings = << >>
    /\ rankedTeams = << >>
    /\ quarterfinals = << >>
    /\ semifinals = << >>
    /\ finals = << >>
    /\ bronzeMatch = << >>
    /\ results = NoResults
    /\ runs = << >>

AllGroups == { GroupNames[i] : i \in 1 .. Len(GroupNames) }

DrawLists == [1 .. RngLen -> 0 .. DrawDen - 1]

\* Groups of four teams each.
FourEach == [g \in AllGroups |-> SubSeq(Roster[g], 1, GroupSize)]

\* main() on well-formed input, for every cyclic list of draws.
Init ==
    /\ rng \in DrawLists
    /\ Loaded(FourEach)
    /\ groupResults = << >>
    /\ call = << >>
    /\ pc = "createRoundRobin"

\* main() on groups of any size the roster allows.
InitAnySize ==
    /\ rng \in { r \in DrawLists : \A i \in 1 .. RngLen : r[i] = r[1] }
    /\ \E size \in [AllGroups -> 0 .. GroupSize + 1] :
           Loaded([g \in AllGroups |-> SubSeq(Roster[g], 1, size[g])])
    /\ groupResults = << >>
    /\ call = << >>
    /\ pc = "createRoundRobin"

\* A drawn result of the k-th scheduled match of teams: team1 wins by margin
\* when margin > 0, team2 wins by -margin when margin < 0.
DrawnResult(teams, k, margin) ==
    GroupResult(teams[Schedule[k][1]], teams[Schedule[k][2]],
                [team1 |-> ScoreLine + (IF margin > 0 THEN margin ELSE 0),
                 team2 |-> ScoreLine + (IF margin < 0 THEN -margin ELSE 0)])

Margins == (0 - MaxMargin) .. MaxMargin

DrawnResults(teams, margin) ==
    [k \in 1 .. Len(Schedule) |-> DrawnResult(teams, k, margin[k])]

\* rankTeams on one group and any six results of its schedule.
InitRank ==
    /\ rng = << 0 >>
    /\ \E g \in AllGroups :
           /\ Loaded([x \in {g} |-> FourEach[g]])
           /\ \E margin \in [1 .. Len(Schedule) -> Margins] :
                  groupResults = [x \in {g} |-> DrawnResults(FourEach[g], margin)]
    /\ call = << >>
    /\ pc = "rankTeams"

\* The seeding on the standings of three groups; in each group the matches at
\* odd places of the schedule end by one drawn margin, those at even places by
\* another.
InitSeed ==
    /\ rng = << 0 >>
    /\ Loaded(FourEach)
    /\ \E odd \in [AllGroups -> Margins], even \in [AllGroups -> Margins] :
           groupResults =
               [g \in AllGroups |->
                   DrawnResults(FourEach[g],
                                [k \in 1 .. Len(Schedule) |->
                                    IF k % 2 = 1 THEN odd[g] ELSE even[g]])]
    /\ call = << >>
    /\ pc = "rankTeams"

RankSamples == {2, 5, 7, 10, 14, 30}
ScoreSamples == {60, 70, 80, 90, 98, 100}

\* expectedPointDiff on drawn arguments.
InitEPD ==
    /\ rng = << 0 >>
    /\ Loaded(FourEach)
    /\ groupResults = << >>
    /\ call \in [rankHome : RankSamples, rankAway : RankSamples,
                 score1 : ScoreSamples, score2 : ScoreSamples, ret : {Undefined}]
    /\ pc = "expectedPointDiff"

(***************************************************************************)
(* Specifications.                                                         *)
(***************************************************************************)
Next ==
    \/ CreateRoundRobinMatch
    \/ RankTeams
    \/ GetTopEightTeams
    \/ GetEliminationMatches
    \/ EliminationStart
    \/ Quarterfinal
    \/ Semifinal
    \/ Final
    \/ Bronze

Spec == Init /\ [][Next]_vars

SpecAnySize == InitAnySize /\ [][Next]_vars

NextTwice == Next \/ CallAgain

SpecTwice == Init /\ [][NextTwice]_vars

NextOrder == Next \/ CallBronzeFirst \/ BronzeFirst \/ FinalAfterBronze

SpecOrder == Init /\ [][NextOrder]_vars

NextRank == RankTeams

SpecRank == InitRank /\ [][NextRank]_vars

NextSeed == RankTeams \/ GetTopEightTeams \/ GetEliminationMatches

SpecSeed == InitSeed /\ [][NextSeed]_vars

NextEPD == CallExpectedPointDiff

SpecEPD == InitEPD /\ [][NextEPD]_vars

(***************************************************************************)
(* Properties.                                                             *)
(***************************************************************************)
PointDiff(t) == t.scored - t.allowed

\* a ranks strictly above b on points, then on scored - allowed.
Better(a, b) ==
    \/ a.points > b.points
    \/ a.points = b.points /\ PointDiff(a) > PointDiff(b)

Elems(seq) == { seq[i] : i \in 1 .. Len(seq) }

\* createRoundRobin has returned.
GroupStageOver == pc \notin {"createRoundRobin", "TypeError"}

FixedOrder == << <<1, 2>>, <<3, 4>>, <<1, 3>>, <<2, 4>>, <<1, 4>>, <<2, 3>> >>

\* C1: once createRoundRobin has returned, every group of exactly four teams
\* [A,B,C,D] has exactly six results, the k-th being the match of the k-th pair
\* of (A,B), (C,D), (A,C), (B,D), (A,D), (B,C) with team1 the first of the
\* pair, so that each of the six unordered pairs of teams occurs exactly once.
C1_RoundRobinSchedule ==
    GroupStageOver =>
        \A g \in DOMAIN groups :
            Len(groups[g]) = 4 =>
                /\ g \in DOMAIN groupResults
                /\ Len(groupResults[g]) = 6
                /\ \A k \in 1 .. 6 :
                       /\ groupResults[g][k].team1 = groups[g][FixedOrder[k][1]].Team
                       /\ groupResults[g][k].team2 = groups[g][FixedOrder[k][2]].Team
                /\ \A a, b \in 1 .. 4 :
                       a < b =>
                           Cardinality({ k \in 1 .. 6 :
                               {groupResults[g][k].team1, groupResults[g][k].team2}
                                   = {groups[g][a].Team, groups[g][b].Team} }) = 1

\* C1 witness: the group stage of three four-team groups is over, with scores
\* that differ between matches.
C1_Witness ==
    /\ pc = "rankTeams"
    /\ \A g \in DOMAIN groups : Len(groups[g]) = 4 /\ Len(groupResults[g]) = 6
    /\ \E k \in 1 .. 6 : groupResults["A"][k].score1 # groupResults["A"][1].score1

\* getTopEightTeams has returned.
Seeded == pc \in {"getEliminationMatches", "getEliminationResults"}

\* seq lists its elements by points descending, then scored - allowed descending.
Ordered(seq) == \A i, j \in 1 .. Len(seq) : i < j => ~ Better(seq[j], seq[i])

C3_Quarterfinals ==
    pc = "getEliminationResults" =>
        LET t(k) == rankedTeams[k + 1]
        IN  quarterfinals = << << t(0), t(7) >>, << t(2), t(5) >>,
                               << t(4), t(3) >>, << t(6), t(1) >> >>

\* C3 witness: the quarterfinals were drawn from eight distinct seeded teams.
C3_Witness ==
    /\ pc = "getEliminationResults"
    /\ Len(quarterfinals) = 4
    /\ Cardinality(Elems(rankedTeams)) = 8

\* The standings of group g before (k = 0) and after its first k results.
StandingsAfter(g, k) ==
    AfterMatches(InitialStandings(groups[g]), groupResults[g], k)

Ranked == pc = "getTopEightTeams"

Sum4(f) == f[1] + f[2] + f[3] + f[4]

\* C4: in rankTeams every match of a four-team group gives one of its two teams
\* 2 points and 1 win and the other 0 points and 1 loss and changes no other
\* team's record (there is no draw, equal scores included); in the standings
\* every team has wins + losses = 3 and points = 2 * wins, and the four teams'
\* points sum to 12.
C4_WinOrLoss ==
    Ranked =>
        \A g \in DOMAIN groups :
            /\ \A k \in 1 .. Len(groupResults[g]) :
                   LET before == StandingsAfter(g, k - 1)
                       after == StandingsAfter(g, k)
                       i1 == FindTeam(before, groupResults[g][k].team1)
                       i2 == FindTeam(before, groupResults[g][k].team2)
                       won(w, l) ==
                           /\ after[w].points = before[w].points + 2
                           /\ after[w].wins = before[w].wins + 1
                           /\ after[w].losses = before[w].losses
                           /\ after[l].points = before[l].points
                           /\ after[l].wins = before[l].wins
                           /\ after[l].losses = before[l].losses + 1
                   IN  /\ won(i1, i2) \/ won(i2, i1)
                       /\ \A i \in (1 .. Len(before)) \ {i1, i2} :
                              /\ after[i].points = before[i].points
                              /\ after[i].wins = before[i].wins
                              /\ after[i].losses = before[i].losses
            /\ Len(groupRankings[g]) = 4
            /\ \A i \in 1 .. 4 :
                   /\ groupRankings[g][i].wins + groupRankings[g][i].losses = 3
                   /\ groupRankings[g][i].points = 2 * groupRankings[g][i].wins
            /\ Sum4([i \in 1 .. 4 |-> groupRankings[g][i].points]) = 12

\* C4 witness: standings computed from six results, one of them with equal
\* scores and one with unequal scores.
C4_Witness ==
    /\ Ranked
    /\ \E g \in DOMAIN groups :
           /\ Len(groupResults[g]) = 6
           /\ \E k \in 1 .. 6 : groupResults[g][k].score1 = groupResults[g][k].score2
           /\ \E k \in 1 .. 6 : groupResults[g][k].score1 # groupResults[g][k].score2

\* C5: the standings rankTeams returns are strictly ordered by points
\* descending, then (scored - allowed) descending, then FIBA ranking (the lower
\* number first), so no two neighbours are left in the order of the input list.
C5_StrictTotalOrder ==
    Ranked =>
        \A g \in DOMAIN groups :
            \A i \in 1 .. Len(groupRankings[g]) - 1 :
                LET a == groupRankings[g][i]
                    b == groupRankings[g][i + 1]
                IN  \/ Better(a, b)
                    \/ /\ a.points = b.points
                       /\ PointDiff(a) = PointDiff(b)
                       /\ a.FIBARanking < b.FIBARanking

\* C6: a group match with equal scores gives the win (2 points, 1 win) to the
\* team with the lower FIBA ranking number and the loss to the other, whichever
\* of the two is team1.
C6_TieToBetterRanked ==
    Ranked =>
        \A g \in DOMAIN groups :
            \A k \in 1 .. Len(groupResults[g]) :
                LET match == groupResults[g][k]
                    before == StandingsAfter(g, k - 1)
                    after == StandingsAfter(g, k)
                    i1 == FindTeam(before, match.team1)
                    i2 == FindTeam(before, match.team2)
                    w == IF before[i1].FIBARanking < before[i2].FIBARanking
                         THEN i1 ELSE i2
                    l == IF w = i1 THEN i2 ELSE i1
                IN  match.score1 = match.score2 =>
                        /\ after[w].points = before[w].points + 2
                        /\ after[w].wins = before[w].wins + 1
                        /\ after[l].losses = before[l].losses + 1

\* The stronger team's margin against the expected margin
\* baseDiff + (maxDiff - baseDiff) * (rankDiff / 30) ^ 1.5, compared on squares.
CurveSquares(actual, rankDiff) ==
    [lhs |-> (actual - BaseDiff) * (actual - BaseDiff)
                 * RankDiffScale * RankDiffScale * RankDiffScale,
     rhs |-> (MaxDiff - BaseDiff) * (MaxDiff - BaseDiff)
                 * rankDiff * rankDiff * rankDiff]

AboveExpected(actual, rankDiff) ==
    /\ actual > BaseDiff
    /\ CurveSquares(actual, rankDiff).lhs > CurveSquares(actual, rankDiff).rhs

BelowExpected(actual, rankDiff) ==
    \/ actual <= BaseDiff /\ (actual < BaseDiff \/ rankDiff > 0)
    \/ actual > BaseDiff
         /\ CurveSquares(actual, rankDiff).lhs < CurveSquares(actual, rankDiff).rhs

\* C7: for |rankHome - rankAway| > 10 expectedPointDiff returns
\* round(actualDiff / 3), a positive reward, when the stronger team's margin
\* actualDiff is larger than the expected margin, and 0 when it is smaller.
C7_MismatchReward ==
    (pc = "returned" /\ Abs(call.rankHome - call.rankAway) > 10) =>
        LET actual == IF call.rankHome < call.rankAway
                      THEN call.score1 - call.score2
                      ELSE call.score2 - call.score1
            rankDiff == Abs(call.rankHome - call.rankAway)
        IN  /\ AboveExpected(actual, rankDiff) =>
                   call.ret = MathRound(actual, 3) /\ call.ret > 0
            /\ BelowExpected(actual, rankDiff) => call.ret = 0

\* C9: with a group that does not have exactly 4 teams the run produces no
\* group standings and no knockout result and never reaches the output.
C9_RejectsBadGroup ==
    (\E g \in DOMAIN groups : Len(groups[g]) # 4) =>
        /\ groupRankings = << >>
        /\ results = NoResults
        /\ pc # "outputResults"

\* getEliminationResults has returned for the second time.
SecondRunOver == pc = "outputResults" /\ Len(runs) = 2

\* C8 as stated: with Math.random() replaying the same draws, a second call of
\* getEliminationResults on the same bracket returns the same quarterfinal,
\* semifinal, final and bronze pairings and scores as the first.
C8_SameResultsTwice == SecondRunOver => results = runs[1].returned

\* C8 as amended: the same, when the second call starts from the form table
\* the first call started from.
C8_SameResultsSameForm ==
    (SecondRunOver /\ runs[2].startForm = runs[1].startForm) =>
        results = runs[1].returned

\* C8 witness: a second call that started from the first call's form table has
\* returned, the first call having changed the table.
C8_Witness ==
    /\ SecondRunOver
    /\ runs[2].startForm = runs[1].startForm
    /\ teamForm # runs[1].startForm
    /\ Len(runs[1].returned.bronze) = 1

\* The team that advances from a recorded match, and the one that does not.
Advances(m) == IF m.result.team1 > m.result.team2 THEN m.match[1] ELSE m.match[2]
Drops(m) == IF m.result.team1 > m.result.team2 THEN m.match[2] ELSE m.match[1]

\* C10: in getEliminationResults the i-th quarterfinal is the i-th pair of the
\* bracket and its advancing team (the first team when score1 > score2, the
\* second otherwise, equal scores included) takes semifinal slot i; semifinal j
\* is played between slots 2j and 2j+1 (counted from 0), the team advancing
\* from it is finalist j and the other team bronze contender j; the final is
\* played by the finalists and the bronze match by the contenders; when the
\* function returns it has recorded 4 quarterfinals, 2 semifinals, 1 final and
\* 1 bronze match.
C10_Progression ==
    /\ Len(semifinals) = Len(results.quarterfinals)
    /\ \A i \in 1 .. Len(results.quarterfinals) :
           /\ results.quarterfinals[i].match = quarterfinals[i]
           /\ semifinals[i] = Advances(results.quarterfinals[i])
    /\ Len(finals) = Len(results.semifinals)
    /\ Len(bronzeMatch) = Len(results.semifinals)
    /\ \A j \in 1 .. Len(results.semifinals) :
           /\ results.semifinals[j].match = << semifinals[2 * j - 1], semifinals[2 * j] >>
           /\ finals[j] = Advances(results.semifinals[j])
           /\ bronzeMatch[j] = Drops(results.semifinals[j])
    /\ \A k \in 1 .. Len(results.finals) : results.finals[k].match = finals
    /\ \A k \in 1 .. Len(results.bronze) : results.bronze[k].match = bronzeMatch
    /\ pc = "outputResults" =>
           /\ Len(results.quarterfinals) = 4
           /\ Len(results.semifinals) = 2
           /\ Len(results.finals) = 1
           /\ Len(results.bronze) = 1
           /\ Len(finals) = 2
           /\ Len(bronzeMatch) = 2

Tied(m) == m.result.team1 = m.result.team2

\* C10 witness: a finished bracket in which a quarterfinal ended with equal
\* scores, and one in which the first team won.
C10_Witness ==
    /\ pc = "outputResults"
    /\ \E i \in 1 .. 4 : Tied(results.quarterfinals[i])
    /\ \E i \in 1 .. 4 :
           results.quarterfinals[i].result.team1 > results.quarterfinals[i].result.team2

\* The teams of the bracket.
BracketTeams ==
    UNION { {quarterfinals[i][1], quarterfinals[i][2]} : i \in 1 .. Len(quarterfinals) }

\* The second call, which played the bronze match before the final, has returned.
BronzeFirstOver == pc = "bronzeFirstReturned"

\* C11: for a bracket of 8 distinct teams, a call of getEliminationResults that
\* plays the bronze match before the final, each of the two matches on the
\* draws it has in the code's order, records the same final (pairing and
\* score) and the same bronze match and leaves the same form table as the call
\* that plays the final before the bronze match.
C11_OrderInsensitive ==
    (BronzeFirstOver /\ Cardinality(BracketTeams) = 8) =>
        /\ results.finals = runs[1].returned.finals
        /\ results.bronze = runs[1].returned.bronze
        /\ teamForm = runs[1].leftForm

\* C11 witness: both orders were played on a bracket of 8 distinct teams, the
\* final and the bronze match on different draws and with different scores,
\* and the two matches changed the form table.
C11_Witness ==
    /\ BronzeFirstOver
    /\ Cardinality(BracketTeams) = 8
    /\ Len(results.finals) = 1
    /\ Len(results.bronze) = 1
    /\ results.finals[1].result # results.bronze[1].result
    /\ NextDraws(rng, rngPos + 6 * Len(rng) - 6) # NextDraws(rng, rngPos + 6 * Len(rng) - 3)
    /\ teamForm # runs[1].startForm
    /\ teamForm # runs[2].startForm

\* C12: in rankTeams a group match adds to each of its two teams' scored column
\* that team's own score of the match, plus 1 for the team with the lower FIBA
\* ranking number exactly when the match ended with equal scores; a match with
\* unequal scores adds the match's own scores and nothing more.
C12_NudgeOnEqualScores ==
    Ranked =>
        \A g \in DOMAIN groups :
            \A k \in 1 .. Len(groupResults[g]) :
                LET match == groupResults[g][k]
                    before == StandingsAfter(g, k - 1)
                    after == StandingsAfter(g, k)
                    i1 == FindTeam(before, match.team1)
                    i2 == FindTeam(before, match.team2)
                    favoured == IF before[i1].FIBARanking < before[i2].FIBARanking
                                THEN i1 ELSE i2
                    nudge(i) == IF match.score1 = match.score2 /\ i = favoured
                                THEN 1 ELSE 0
                IN  /\ after[i1].scored = before[i1].scored + match.score1 + nudge(i1)
                    /\ after[i2].scored = before[i2].scored + match.score2 + nudge(i2)

====
